---------------------------- MODULE Spec2Model ----------------------------
(***************************************************************************)
(* Model of xml_schema_derive/src/xsd/complex_type.rs: the ComplexType     *)
(* entity, its code generation (Implementation::implement) and the two     *)
(* helpers get_field_implementation / get_integrated_implementation.       *)
(*                                                                         *)
(* Strings are sequences of one-character strings.  Option<T> is the       *)
(* empty tuple (None) or a one-element tuple (Some).  A Sequence is the    *)
(* list of its elements.  A TokenStream is a list of fragments; a          *)
(* fragment produced by code outside this file is kept as the call that    *)
(* produces it: <<callee, receiver, arguments>>.                           *)
(***************************************************************************)
EXTENDS Naturals, Sequences, FiniteSets

VARIABLES
  self,            \* the ComplexType the operations are called on (&self)
  binding,         \* implement's local `binding` of its most recent call
  impl_last,       \* most recent implement call: <<"none">> or <<"call", args, ret>>
  impl_prev,       \* the implement call before that
  field_ret,       \* most recent get_field_implementation: <<"none">> or <<"call", args, ret>>
  integrated_ret   \* most recent get_integrated_implementation: <<"none">> or <<"call", parent_name, ret>>

vars == <<self, binding, impl_last, impl_prev, field_ret, integrated_ret>>

---------------------------------------------------------------------------
(* Bounds of the model *)

MaxNameLen == 2
MaxElems == 2
MaxAttrs == 2

---------------------------------------------------------------------------
(* Characters *)

LowerLetters ==
  <<"a","b","c","d","e","f","g","h","i","j","k","l","m",
    "n","o","p","q","r","s","t","u","v","w","x","y","z">>
UpperLetters ==
  <<"A","B","C","D","E","F","G","H","I","J","K","L","M",
    "N","O","P","Q","R","S","T","U","V","W","X","Y","Z">>
DigitChars == {"0","1","2","3","4","5","6","7","8","9"}

IsLower(c) == \E i \in DOMAIN LowerLetters : LowerLetters[i] = c
IsUpper(c) == \E i \in DOMAIN UpperLetters : UpperLetters[i] = c
IsAlphanumeric(c) == IsLower(c) \/ IsUpper(c) \/ c \in DigitChars

ToUpperChar(c) ==
  IF IsLower(c)
    THEN UpperLetters[CHOOSE i \in DOMAIN LowerLetters : LowerLetters[i] = c]
    ELSE c
ToLowerChar(c) ==
  IF IsUpper(c)
    THEN LowerLetters[CHOOSE i \in DOMAIN UpperLetters : UpperLetters[i] = c]
    ELSE c

---------------------------------------------------------------------------
(* Naming: self.name.replace('.', "_").to_upper_camel_case(), Ident::new *)

\* str::replace('.', "_")
ReplaceDots(s) == [i \in 1..Len(s) |-> IF s[i] = "." THEN "_" ELSE s[i]]

\* heck: the words are the maximal runs of alphanumeric characters
RECURSIVE SplitWords(_, _, _, _)
SplitWords(s, i, cur, acc) ==
  IF i > Len(s) THEN Append(acc, cur)
  ELSE IF IsAlphanumeric(s[i])
    THEN SplitWords(s, i + 1, Append(cur, s[i]), acc)
    ELSE SplitWords(s, i + 1, <<>>, Append(acc, cur))

\* heck: a word is cut again where the case changes (aB -> a|B, ABc -> A|Bc)
RECURSIVE WordPieces(_, _, _, _, _)
WordPieces(w, i, init, mode, acc) ==
  IF i > Len(w) THEN acc
  ELSE IF i = Len(w) THEN Append(acc, SubSeq(w, init, Len(w)))
  ELSE
    LET c == w[i]
        next == w[i + 1]
        next_mode == IF IsLower(c) THEN "Lowercase"
                     ELSE IF IsUpper(c) THEN "Uppercase"
                     ELSE mode
    IN IF next_mode = "Lowercase" /\ IsUpper(next)
         THEN WordPieces(w, i + 1, i + 1, "Boundary", Append(acc, SubSeq(w, init, i)))
       ELSE IF mode = "Uppercase" /\ IsUpper(c) /\ IsLower(next)
         THEN WordPieces(w, i + 1, i, "Boundary", Append(acc, SubSeq(w, init, i - 1)))
       ELSE WordPieces(w, i + 1, init, next_mode, acc)

\* heck: first character upper case, the rest lower case
Capitalize(p) ==
  [i \in 1..Len(p) |-> IF i = 1 THEN ToUpperChar(p[i]) ELSE ToLowerChar(p[i])]

RECURSIVE CapitalizeAll(_, _)
CapitalizeAll(pieces, i) ==
  IF i > Len(pieces) THEN <<>>
  ELSE Capitalize(pieces[i]) \o CapitalizeAll(pieces, i + 1)

RECURSIVE CamelWords(_, _)
CamelWords(words, i) ==
  IF i > Len(words) THEN <<>>
  ELSE CapitalizeAll(WordPieces(words[i], 1, 1, "Boundary", <<>>), 1)
         \o CamelWords(words, i + 1)

ToUpperCamelCase(s) == CamelWords(SplitWords(s, 1, <<>>, <<>>), 1)

\* The mutant of StructName: the schema name is used as it is written.
StructNameRaw(name) == name

\* The string handed to Ident::new for the struct name
StructName(name) == ToUpperCamelCase(ReplaceDots(name))

\* Ident::new panics unless the string is a legal identifier: not empty, not
\* a number, an identifier start followed by identifier characters
IdentOk(s) ==
  /\ Len(s) > 0
  /\ \E i \in 1..Len(s) : s[i] \notin DigitChars
  /\ (IsLower(s[1]) \/ IsUpper(s[1]) \/ s[1] = "_")
  /\ \A i \in 2..Len(s) : IsAlphanumeric(s[i]) \/ s[i] = "_"

---------------------------------------------------------------------------
(* ComplexType::implement *)

\* The mutant of MarkElement: any element that names a type is marked.
MarkElementAnyKind(name, element) ==
  IF element.kind # <<>>
    THEN [element EXCEPT !.recursive = TRUE]
    ELSE element

\* The body of the marking loop
MarkElement(name, element) ==
  IF element.kind # <<>> /\ name = element.kind[1]
    THEN [element EXCEPT !.recursive = TRUE]
    ELSE element

\* The mutant of RecursionMarking: the copy is made and no element is marked.
RecursionMarkingSkipped(ct) == ct.sequence

\* `binding` after the loop: the clone of self.sequence with its elements marked
RecursionMarking(ct) ==
  IF ct.sequence # <<>>
    THEN << [i \in 1..Len(ct.sequence[1]) |-> MarkElement(ct.name, ct.sequence[1][i])] >>
    ELSE <<>>

\* The mutant of SequenceAfterImplement: the loop runs over self.sequence itself.
SequenceMarkedInPlace(ct) == RecursionMarking(ct)

\* self.sequence once implement has returned: the loop ran over a clone
SequenceAfterImplement(ct) == ct.sequence

\* sequence.implement(..) on the working copy, or the empty TokenStream
SequenceFields(self_sequence, args) ==
  IF self_sequence # <<>>
    THEN << <<"Sequence::implement", self_sequence[1], args>> >>
    ELSE <<>>

\* simple_content.implement(..), or the empty TokenStream
SimpleContentFields(ct, args) ==
  IF ct.simple_content # <<>>
    THEN << <<"SimpleContent::implement", ct.simple_content[1], args>> >>
    ELSE <<>>

\* The mutant of ComplexContentFields: the base's field without the flatten
\* attribute.
ComplexContentFieldsNested(ct, args) ==
  IF ct.complex_content # <<>>
    THEN << <<"ComplexContent::get_field_implementation", ct.complex_content[1],
              [context |-> args.context, prefix |-> args.prefix]>> >>
    ELSE <<>>

\* #[yaserde(flatten)] complex_content.get_field_implementation(..), or the
\* empty TokenStream
ComplexContentFields(ct, args) ==
  IF ct.complex_content # <<>>
    THEN << <<"yaserde(flatten)",
              <<"ComplexContent::get_field_implementation", ct.complex_content[1],
                [context |-> args.context, prefix |-> args.prefix]>> >> >>
    ELSE <<>>

\* One attribute.implement(..) per attribute, in the order of self.attributes
AttributeFields(ct, args) ==
  [i \in 1..Len(ct.attributes) |-> <<"Attribute::implement", ct.attributes[i], args>>]

\* sequence.get_sub_types_implementation(..) on the working copy, or nothing
SubTypesImplementation(self_sequence, args) ==
  IF self_sequence # <<>>
    THEN << <<"Sequence::get_sub_types_implementation", self_sequence[1], args>> >>
    ELSE <<>>

\* annotation.implement(..), or nothing
Docs(ct, args) ==
  IF ct.annotation # <<>>
    THEN << <<"Annotation::implement", ct.annotation[1], args>> >>
    ELSE <<>>

Derives ==
  <<"Clone", "Debug", "Default", "PartialEq",
    "yaserde_derive::YaDeserialize", "yaserde_derive::YaSerialize">>

\* The struct item of the quote! block
StructItem(struct_name, args, fields) ==
  <<"struct", [derive |-> Derives,
               namespace_definition |-> args.namespace_definition,
               name |-> struct_name,
               fields |-> fields]>>

\* The mutant of Assemble: the attribute fields come first.
AssembleAttributesFirst(docs, struct_name, args, sequence, simple_content, complex_content, attributes, sub_types) ==
  docs
  \o << StructItem(struct_name, args,
                   attributes \o sequence \o simple_content \o complex_content) >>
  \o sub_types

\* The quote! block that implement returns
Assemble(docs, struct_name, args, sequence, simple_content, complex_content, attributes, sub_types) ==
  docs
  \o << StructItem(struct_name, args,
                   sequence \o simple_content \o complex_content \o attributes) >>
  \o sub_types

\* The mutant of ImplementReturn: the sub-types are taken from self.sequence.
ImplementReturnHoistOriginal(ct, args) ==
  IF ~ IdentOk(StructName(ct.name)) THEN <<"panic">>
  ELSE
    <<"ok", Assemble(Docs(ct, args), StructName(ct.name), args,
                     SequenceFields(RecursionMarking(ct), args),
                     SimpleContentFields(ct, args),
                     ComplexContentFields(ct, args),
                     AttributeFields(ct, args),
                     SubTypesImplementation(ct.sequence, args))>>

\* What a call of implement ends with: a panic of Ident::new, or the TokenStream
ImplementReturn(ct, args) ==
  IF ~ IdentOk(StructName(ct.name)) THEN <<"panic">>
  ELSE
    LET self_sequence == RecursionMarking(ct)
    IN <<"ok", Assemble(Docs(ct, args), StructName(ct.name), args,
                        SequenceFields(self_sequence, args),
                        SimpleContentFields(ct, args),
                        ComplexContentFields(ct, args),
                        AttributeFields(ct, args),
                        SubTypesImplementation(self_sequence, args))>>

\* implement's local `binding`: not made when Ident::new panicked before it
BindingOf(ct) ==
  IF ~ IdentOk(StructName(ct.name)) THEN <<"unset">>
  ELSE <<"set", RecursionMarking(ct)>>

---------------------------------------------------------------------------
(* ComplexType::get_field_implementation, get_integrated_implementation *)

\* The mutant of GetFieldImplementation: simple content is looked at first.
GetFieldImplementationSimpleFirst(ct, args) ==
  IF ct.simple_content # <<>>
    THEN << <<"SimpleContent::get_field_implementation", ct.simple_content[1], args>> >>
  ELSE IF ct.sequence # <<>>
    THEN << <<"Sequence::get_field_implementation", ct.sequence[1], args>> >>
  ELSE <<>>

GetFieldImplementation(ct, args) ==
  IF ct.sequence # <<>>
    THEN << <<"Sequence::get_field_implementation", ct.sequence[1], args>> >>
  ELSE IF ct.simple_content # <<>>
    THEN << <<"SimpleContent::get_field_implementation", ct.simple_content[1], args>> >>
  ELSE <<>>

\* The mutant of GetIntegratedImplementation: the sequence is looked at first.
GetIntegratedImplementationSequenceFirst(ct, parent_name) ==
  IF ct.sequence # <<>>
    THEN IF IdentOk(parent_name) THEN <<"ok", <<"Ident", parent_name>>>> ELSE <<"panic">>
  ELSE <<"ok", <<"String">>>>

GetIntegratedImplementation(ct, parent_name) ==
  IF ct.simple_content # <<>> THEN <<"ok", <<"String">>>>
  ELSE IF ct.sequence # <<>>
    THEN IF IdentOk(parent_name) THEN <<"ok", <<"Ident", parent_name>>>> ELSE <<"panic">>
  ELSE <<"ok", <<"String">>>>

---------------------------------------------------------------------------
(* Rendering of one Element of a Sequence (Sequence::implement, per element) *)

\* Cardinality wrapper of the field: absent bounds stand for exactly one
FieldWrapper(element) ==
  LET min == IF element.min_occurences = <<>> THEN 1 ELSE element.min_occurences[1]
      max == IF element.max_occurences = <<>> THEN 1 ELSE element.max_occurences[1]
  IN IF max > 1 THEN "Vec"
     ELSE IF min = 0 /\ max = 1 THEN "Option"
     ELSE "none"

\* The field of one element: wire name, value type, indirection, wrapper
ElementField(element) ==
  [rename |-> element.name,
   type |-> element.kind,
   boxed |-> element.recursive,
   wrapper |-> FieldWrapper(element)]

---------------------------------------------------------------------------
(* The ComplexTypes and arguments the operations are run on *)

Alphabet == {"a", "B", "1", ".", "_", "-"}

RECURSIVE StringsUpTo(_)
StringsUpTo(n) ==
  IF n = 0 THEN {<<>>}
  ELSE LET shorter == StringsUpTo(n - 1)
       IN shorter \cup {Append(t, c) : t \in {u \in shorter : Len(u) = n - 1}, c \in Alphabet}

RecursiveName == <<"r","e","c","u","r","s","i","v","e">>
NextName == <<"n","e","x","t">>

\* Type names that differ only in case or by a separator
MarkNames == {<<"a">>, <<"A">>, <<"a", ".", "b">>}

Occurences == {<<>>, <<0>>, <<1>>, <<2>>}

DefaultElements(kinds) ==
  [name : {NextName}, kind : kinds, min_occurences : {<<>>},
   max_occurences : {<<>>}, recursive : BOOLEAN]

RECURSIVE ListsUpTo(_, _)
ListsUpTo(S, n) ==
  IF n = 0 THEN {<<>>}
  ELSE LET shorter == ListsUpTo(S, n - 1)
       IN shorter \cup {Append(t, x) : t \in {u \in shorter : Len(u) = n - 1}, x \in S}

EmptyType(name) ==
  [name |-> name, attributes |-> <<>>, sequence |-> <<>>, simple_content |-> <<>>,
   complex_content |-> <<>>, annotation |-> <<>>]

\* every schema name up to MaxNameLen, and the name of the repository's test
NamingTypes == {EmptyType(n) : n \in StringsUpTo(MaxNameLen) \cup {RecursiveName}}

\* sequences of elements that refer to the type itself, to another type or to none
MarkTypes ==
  {[EmptyType(n) EXCEPT !.sequence = <<els>>] :
     n \in MarkNames,
     els \in ListsUpTo(DefaultElements({<<>>} \cup {<<k>> : k \in MarkNames}), MaxElems)}

\* one element under every cardinality
CardinalityTypes ==
  {[EmptyType(RecursiveName) EXCEPT !.sequence = << <<el>> >>] :
     el \in [name : {NextName},
             kind : {<<>>, <<RecursiveName>>, <<<<"a">>>>},
             min_occurences : Occurences, max_occurences : Occurences,
             recursive : BOOLEAN]}

SelfElement(n) ==
  [name |-> NextName, kind |-> <<n>>, min_occurences |-> <<>>,
   max_occurences |-> <<>>, recursive |-> FALSE]

\* every subset of the content models and attribute lists
ContentTypes ==
  {[name |-> n, attributes |-> at, sequence |-> sq, simple_content |-> sc,
    complex_content |-> cc, annotation |-> an] :
     n \in {<<"a">>, <<>>, <<"_">>},
     at \in ListsUpTo({"attribute1", "attribute2"}, MaxAttrs),
     sq \in {<<>>, << <<>> >>, << <<SelfElement(<<"a">>)>> >>},
     sc \in {<<>>, <<"simpleContent">>},
     cc \in {<<>>, <<"complexContent">>},
     an \in {<<>>, <<"annotation">>}}

ComplexTypes == NamingTypes \cup MarkTypes \cup CardinalityTypes \cup ContentTypes

\* namespace_definition, prefix, context of a call
Arguments ==
  [namespace_definition : {"namespace"}, prefix : {<<>>, <<"p">>}, context : {"context"}]

FieldArguments == [context : {"context"}, prefix : {<<>>}]

ParentNames == {<<"W", "r", "a", "p">>, <<>>, <<"a", ".", "b">>}

---------------------------------------------------------------------------
(* The operations *)

Init ==
  /\ self \in ComplexTypes
  /\ binding = <<"unset">>
  /\ impl_last = <<"none">>
  /\ impl_prev = <<"none">>
  /\ field_ret = <<"none">>
  /\ integrated_ret = <<"none">>

Implement ==
  \E args \in Arguments :
    /\ impl_last' = <<"call", args, ImplementReturn(self, args)>>
    /\ impl_prev' = impl_last
    /\ binding' = BindingOf(self)
    /\ self' = [self EXCEPT !.sequence = SequenceAfterImplement(self)]
    /\ UNCHANGED <<field_ret, integrated_ret>>

GetField ==
  \E args \in FieldArguments :
    /\ field_ret' = <<"call", args, GetFieldImplementation(self, args)>>
    /\ UNCHANGED <<self, binding, impl_last, impl_prev, integrated_ret>>

GetIntegrated ==
  \E parent_name \in ParentNames :
    /\ integrated_ret' = <<"call", parent_name, GetIntegratedImplementation(self, parent_name)>>
    /\ UNCHANGED <<self, binding, impl_last, impl_prev, field_ret>>

Next == Implement \/ GetField \/ GetIntegrated

Spec == Init /\ [][Next]_vars

---------------------------------------------------------------------------
(* Reading the result of the calls *)

ImplementReturned == impl_last[1] = "call" /\ impl_last[3][1] = "ok"
Items == impl_last[3][2]
StructIndexes == {i \in DOMAIN Items : Items[i][1] = "struct"}
Struct == Items[CHOOSE i \in StructIndexes : TRUE][2]
Fields == Struct.fields
FieldsTagged(tag) == {i \in DOMAIN Fields : Fields[i][1] = tag}
ItemsTagged(tag) == {i \in DOMAIN Items : Items[i][1] = tag}

RefersToSelf(element) == element.kind # <<>> /\ element.kind[1] = self.name
SelfReferences == {i \in DOMAIN self.sequence[1] : RefersToSelf(self.sequence[1][i])}
AllSelfReferencesMarked(elements) ==
  /\ DOMAIN elements = DOMAIN self.sequence[1]
  /\ \A i \in SelfReferences : elements[i].recursive = TRUE

NothingPopulated ==
  /\ self.sequence = <<>>
  /\ self.simple_content = <<>>
  /\ self.complex_content = <<>>
  /\ self.attributes = <<>>

---------------------------------------------------------------------------
(* C1: after the marking pass an element of the working copy is recursive  *)
(* exactly when it was recursive before or its kind is present and equal   *)
(* to the raw name of the ComplexType; nothing else of the element and no  *)
(* other element changes; the pass itself never fails: the working copy    *)
(* exists whenever Ident::new accepted the struct name.                    *)
C1_MarkingIffKindEqualsName ==
  impl_last[1] = "call" =>
    /\ binding[1] = "set" <=> ImplementReturned
    /\ binding[1] = "set" =>
         /\ binding[2] = <<>> <=> self.sequence = <<>>
         /\ self.sequence # <<>> =>
              /\ DOMAIN binding[2][1] = DOMAIN self.sequence[1]
              /\ \A i \in DOMAIN self.sequence[1] :
                   LET before == self.sequence[1][i]
                       after == binding[2][1][i]
                   IN /\ after.recursive = (before.recursive \/ RefersToSelf(before))
                      /\ after = [before EXCEPT !.recursive = after.recursive]

\* a self-reference was marked next to an element of another kind that was not
C1_Witness ==
  /\ binding[1] = "set"
  /\ self.sequence # <<>>
  /\ Len(self.sequence[1]) = 2
  /\ RefersToSelf(self.sequence[1][1])
  /\ ~ self.sequence[1][1].recursive
  /\ binding[2][1][1].recursive
  /\ self.sequence[1][2].kind # <<>>
  /\ StructName(self.sequence[1][2].kind[1]) = StructName(self.name)
  /\ ~ RefersToSelf(self.sequence[1][2])
  /\ ~ binding[2][1][2].recursive

(* C2: when an element's kind equals the name of the ComplexType, the      *)
(* Sequence handed to Sequence::implement carries it with recursive set,   *)
(* whatever its min_occurences and max_occurences, so its field is boxed;  *)
(* under default cardinality the field is the boxed type itself, renamed   *)
(* to the element's name.                                                  *)
C2_SelfReferenceBoxed ==
  (ImplementReturned /\ self.sequence # <<>>) =>
    /\ Cardinality(FieldsTagged("Sequence::implement")) = 1
    /\ \A f \in FieldsTagged("Sequence::implement") :
         /\ AllSelfReferencesMarked(Fields[f][2])
         /\ \A i \in SelfReferences :
              LET element == Fields[f][2][i]
              IN /\ ElementField(element).boxed
                 /\ (element.min_occurences = <<>> /\ element.max_occurences = <<>>) =>
                      ElementField(element) =
                        [rename |-> self.sequence[1][i].name, type |-> <<self.name>>,
                         boxed |-> TRUE, wrapper |-> "none"]

\* an optional, repeated self-reference that was not marked before the call
C2_Witness ==
  /\ ImplementReturned
  /\ self.name = RecursiveName
  /\ self.sequence # <<>>
  /\ SelfReferences = {1}
  /\ self.sequence[1][1].min_occurences = <<0>>
  /\ self.sequence[1][1].max_occurences = <<2>>
  /\ ~ self.sequence[1][1].recursive
  /\ Fields[1][2][1].recursive

(* C3: a ComplexType with no sequence, no simple content, no complex       *)
(* content and no attributes makes implement return, without error, one    *)
(* type definition with an empty field list and no sub-type definitions.   *)
C3_EmptyTypeReturnsEmptyStruct ==
  (impl_last[1] = "call" /\ NothingPopulated) =>
    /\ ImplementReturned
    /\ Cardinality(StructIndexes) = 1
    /\ Fields = <<>>
    /\ ItemsTagged("Sequence::get_sub_types_implementation") = {}

(* C4: the field list is the sequence's fields, then the simple content's, *)
(* then the flattened complex content, then one field per attribute in     *)
(* declaration order; an absent part contributes nothing; the sub-type     *)
(* definitions come after the type definition.                             *)
C4_FieldOrder ==
  ImplementReturned =>
    LET tag(present, t) == IF present THEN <<t>> ELSE <<>>
        head == tag(self.sequence # <<>>, "Sequence::implement")
                \o tag(self.simple_content # <<>>, "SimpleContent::implement")
                \o tag(self.complex_content # <<>>, "yaserde(flatten)")
    IN /\ Cardinality(StructIndexes) = 1
       /\ Len(Fields) = Len(head) + Len(self.attributes)
       /\ \A i \in DOMAIN head : Fields[i][1] = head[i]
       /\ \A i \in DOMAIN self.attributes :
            /\ Fields[Len(head) + i][1] = "Attribute::implement"
            /\ Fields[Len(head) + i][2] = self.attributes[i]
       /\ \A i \in StructIndexes :
            \A j \in ItemsTagged("Sequence::get_sub_types_implementation") : i < j

\* every part populated, two different attributes
C4_Witness ==
  /\ ImplementReturned
  /\ self.sequence # <<>>
  /\ self.simple_content # <<>>
  /\ self.complex_content # <<>>
  /\ self.attributes = <<"attribute2", "attribute1">>
  /\ Len(Fields) = 5
  /\ Len(Items) = 3

C6_FieldImplementation ==
  field_ret[1] = "call" =>
    LET ret == field_ret[3]
    IN /\ self.sequence # <<>> =>
            /\ Len(ret) = 1
            /\ ret[1][1] = "Sequence::get_field_implementation"
            /\ ret[1][2] = self.sequence[1]
       /\ (self.sequence = <<>> /\ self.simple_content # <<>>) =>
            /\ Len(ret) = 1
            /\ ret[1][1] = "SimpleContent::get_field_implementation"
            /\ ret[1][2] = self.simple_content[1]
       /\ (self.sequence = <<>> /\ self.simple_content = <<>>) => ret = <<>>

\* sequence and simple content both populated: the sequence wins
C6_Witness ==
  /\ field_ret[1] = "call"
  /\ self.sequence # <<>>
  /\ self.simple_content # <<>>
  /\ self.complex_content # <<>>
  /\ self.attributes # <<>>
  /\ field_ret[3][1][1] = "Sequence::get_field_implementation"

(* C7: the complex content's field contribution is emitted exactly once,   *)
(* under the flatten attribute, if and only if complex_content is present; *)
(* it is never emitted nested, and the sequence's and the attributes'      *)
(* fields stand beside it.                                                 *)
C7_ComplexContentFlattened ==
  ImplementReturned =>
    /\ Cardinality(FieldsTagged("yaserde(flatten)")) =
         (IF self.complex_content # <<>> THEN 1 ELSE 0)
    /\ FieldsTagged("ComplexContent::get_field_implementation") = {}
    /\ \A f \in FieldsTagged("yaserde(flatten)") :
         /\ Fields[f][2][1] = "ComplexContent::get_field_implementation"
         /\ Fields[f][2][2] = self.complex_content[1]
    /\ self.complex_content # <<>> =>
         /\ self.sequence # <<>> => FieldsTagged("Sequence::implement") # {}
         /\ Cardinality(FieldsTagged("Attribute::implement")) = Len(self.attributes)

\* a base type beside a sequence and two attributes
C7_Witness ==
  /\ ImplementReturned
  /\ self.complex_content # <<>>
  /\ self.sequence # <<>>
  /\ Len(self.attributes) = 2
  /\ Cardinality(FieldsTagged("yaserde(flatten)")) = 1

(* C8: the emitted type name holds no `.` and no other separator: it is    *)
(* the alphanumeric characters of the schema name, in their order and up   *)
(* to case, starting with an upper-case letter; `recursive` gives          *)
(* `Recursive`.                                                            *)
C8_TypeName ==
  ImplementReturned =>
    LET alnum == SelectSeq(self.name, IsAlphanumeric)
    IN /\ \A i \in DOMAIN Struct.name : IsAlphanumeric(Struct.name[i])
       /\ IsUpper(Struct.name[1])
       /\ Len(Struct.name) = Len(alnum)
       /\ \A i \in DOMAIN alnum : ToLowerChar(Struct.name[i]) = ToLowerChar(alnum[i])
       /\ self.name = RecursiveName => Struct.name = <<"R","e","c","u","r","s","i","v","e">>

\* a name with a `.` between two words
C8_Witness ==
  /\ ImplementReturned
  /\ self.name = <<"a", ".", "b">>
  /\ Struct.name = <<"A", "B">>

(* C9: implement leaves the ComplexType unchanged, the recursive flags of  *)
(* its elements included, and a second call with the same arguments        *)
(* returns what the first returned.                                        *)
C9_ImplementLeavesSelf ==
  [][/\ self' = self
     /\ (impl_prev'[1] = "call" /\ impl_prev'[2] = impl_last'[2]) =>
          impl_prev'[3] = impl_last'[3]]_vars

\* two calls, the working copy marked and the original not
C9_Witness ==
  /\ impl_prev[1] = "call"
  /\ ImplementReturned
  /\ impl_prev[2] = impl_last[2]
  /\ self.sequence # <<>>
  /\ SelfReferences # {}
  /\ \A i \in SelfReferences : ~ self.sequence[1][i].recursive /\ binding[2][1][i].recursive

(* C10 as stated: on every path that renders the Sequence, implement, its  *)
(* sub-type step and get_field_implementation, the elements whose kind     *)
(* equals the name of the ComplexType are rendered with recursive set.     *)
C10_EveryPathMarked ==
  /\ (ImplementReturned /\ self.sequence # <<>>) =>
       /\ \A f \in FieldsTagged("Sequence::implement") : AllSelfReferencesMarked(Fields[f][2])
       /\ \A j \in ItemsTagged("Sequence::get_sub_types_implementation") :
            AllSelfReferencesMarked(Items[j][2])
  /\ (field_ret[1] = "call" /\ self.sequence # <<>>) =>
       \A f \in DOMAIN field_ret[3] : AllSelfReferencesMarked(field_ret[3][f][2])

(* C10, amended: implement's field rendering and its sub-type step both    *)
(* receive the marked working copy; get_field_implementation renders the   *)
(* Sequence as stored, with the recursive flags it already has.            *)
C10_ImplementPathsMarked ==
  /\ (ImplementReturned /\ self.sequence # <<>>) =>
       /\ Cardinality(FieldsTagged("Sequence::implement")) = 1
       /\ Cardinality(ItemsTagged("Sequence::get_sub_types_implementation")) = 1
       /\ \A f \in FieldsTagged("Sequence::implement") : AllSelfReferencesMarked(Fields[f][2])
       /\ \A j \in ItemsTagged("Sequence::get_sub_types_implementation") :
            AllSelfReferencesMarked(Items[j][2])
  /\ (field_ret[1] = "call" /\ self.sequence # <<>>) =>
       \A f \in DOMAIN field_ret[3] : field_ret[3][f][2] = self.sequence[1]

\* the same type through implement (marked) and get_field_implementation (not)
C10_Witness ==
  /\ ImplementReturned
  /\ field_ret[1] = "call"
  /\ self.sequence # <<>>
  /\ SelfReferences # {}
  /\ \A i \in SelfReferences :
       /\ ~ field_ret[3][1][2][i].recursive
       /\ Items[Len(Items)][2][i].recursive

====
